---- MODULE Spec2Model ----
(***************************************************************************)
(* Dual-state morphing engine: the zustand store (src/store.ts), the       *)
(* instanced ornaments (src/components/Experience.tsx, second half) and    *)
(* the foliage point cloud (src/unnamed/part_000, second half).            *)
(*                                                                         *)
(* Numbers.  JavaScript numbers are modelled as fixed-point integers:      *)
(*   progress          in units of 1/SCALE                                 *)
(*   delta, time       in ticks of 1/TicksPerSec second                    *)
(*   delta * lerpSpeed as the fraction tn/TD                               *)
(*   eased progress    in units of 1/ES (the precision of the buffers the  *)
(*                     transforms are written to)                          *)
(*   positions, scale  in units of 1/PSC                                   *)
(*   Math.random()     as a draw n in 0..UD-1 standing for n/UD            *)
(* An arithmetic result that is not on the grid is rounded to the nearest  *)
(* grid point (RoundDiv), the way a floating-point result is rounded.      *)
(* Trigonometry is computed exactly, on the inputs where the result is     *)
(* rational (quarter turns, acos/cbrt of the draws listed with each set).  *)
(***************************************************************************)
EXTENDS Integers, Sequences, FiniteSets, TLC

VARIABLES
  treeState,    \* store: TreeState.SCATTERED | TreeState.TREE_SHAPE
  isMorphing,   \* store: boolean
  progressRef,  \* per group: progressRef.current
  mounted,      \* per group: meshRef.current / shaderRef.current is non-null
  data,         \* per group: the generated elements (useMemo)
  matrix,       \* per ornament group: the instance matrices written by setMatrixAt
  version,      \* per ornament group: how often instanceMatrix.needsUpdate was set
  uniforms,     \* foliage shader uniforms uTime and uProgress
  elapsedTime,  \* state.clock.elapsedTime
  delta,        \* the delta of the frame being rendered
  pending,      \* the groups whose useFrame callback has not run yet in this frame
  frame,        \* number of frames rendered so far
  hist,         \* history, not program state: progressRef, treeState and mounted
                \* when the current frame began, treeState when the one before began
  pc,           \* which run this is ("main") or the step of a function run
  inp,          \* inputs of a function run
  res           \* results of a function run

vars == <<treeState, isMorphing, progressRef, mounted, data, matrix, version,
          uniforms, elapsedTime, delta, pending, frame, hist, pc, inp, res>>

storeVars == <<treeState, isMorphing>>
sceneVars == <<progressRef, mounted, data, matrix, version, uniforms>>
clockVars == <<elapsedTime, delta, pending, frame, hist>>
runVars   == <<pc, inp, res>>

----------------------------------------------------------------------------
(* Bounds of the exploration *)

MaxFrames == 3
NumElems == 1

(* Number grids *)

SCALE == 243 * 1024
ES == 2 * 512
PSC == 4 * 100
UD == 4 * 10
TD == 2 * 60
TicksPerSec == 6 * 10

SCATTERED == "SCATTERED"
TREE_SHAPE == "TREE_SHAPE"
TreeStates == {SCATTERED, TREE_SHAPE}

Groups == {"foliage", "box", "sphere"}
Ornaments == {"box", "sphere"}

\* Frame deltas explored, in ticks: 0, one 60 Hz frame, 2/3 s, 59/60 s, 1 s.
Deltas == {0, 1, 40, 59, 60}

Abs(x) == IF x < 0 THEN -x ELSE x

\* a/d rounded to the nearest integer, ties away from zero.
RoundDiv(a, d) ==
  IF a >= 0 THEN (2 * a + d) \div (2 * d) ELSE -((2 * (-a) + d) \div (2 * d))

----------------------------------------------------------------------------
(* src/store.ts *)

StoreInit == [treeState |-> SCATTERED, isMorphing |-> FALSE]

\* toggleState without "isMorphing: true".
toggleStateKeepsFlag(st) ==
  [treeState  |-> IF st.treeState = TREE_SHAPE THEN SCATTERED ELSE TREE_SHAPE,
   isMorphing |-> st.isMorphing]

toggleState(st) ==
  [treeState  |-> IF st.treeState = TREE_SHAPE THEN SCATTERED ELSE TREE_SHAPE,
   isMorphing |-> TRUE]

setMorphing(st, b) == [st EXCEPT !.isMorphing = b]

----------------------------------------------------------------------------
(* Progress update of the two useFrame callbacks *)

\* target = treeState === TreeState.TREE_SHAPE ? 1 : 0
Target(ts) == IF ts = TREE_SHAPE THEN SCALE ELSE 0

\* A lerp that heads for 1 whatever the target: (1 - t) * x + t.
LerpTowardsOne(x, y, tn) == RoundDiv((TD - tn) * x + tn * SCALE, TD)

\* A lerp that forgets the weight of y: (1 - t) * x + y.
LerpMissingWeight(x, y, tn) == RoundDiv((TD - tn) * x, TD) + y

\* THREE.MathUtils.lerp(x, y, t) = (1 - t) * x + t * y, with t = tn/TD.
Lerp(x, y, tn) == RoundDiv((TD - tn) * x + tn * y, TD)

\* delta * lerpSpeed as a numerator over TD; lerpSpeed is 1.0 for boxes and
\* 1.5 for spheres, delta is in ticks of 1/60 s.
OrnamentT(type, d) == IF type = "box" THEN 2 * d ELSE 3 * d

\* delta * 1.5 as a numerator over TD.
FoliageT(d) == 3 * d

\* Math.abs(progressRef.current - target) < 0.001
SnapBranch(p, target) == Abs(p - target) * 1000 < SCALE

OrnamentProgress(type, p, ts, d) ==
  IF SnapBranch(p, Target(ts))
    THEN Target(ts)
    ELSE Lerp(p, Target(ts), OrnamentT(type, d))

FoliageProgress(p, ts, d) == Lerp(p, Target(ts), FoliageT(d))

ProgressUpdate(g, p, ts, d) ==
  IF g = "foliage" THEN FoliageProgress(p, ts, d) ELSE OrnamentProgress(g, p, ts, d)

----------------------------------------------------------------------------
(* Cubic easing *)

\* A product of two numbers in units of 1/ES.
FMul(a, b) == RoundDiv(a * b, ES)

\* Math.pow(b, 3)
Pow3(b) == FMul(FMul(b, b), b)

\* progress, read at the precision of the output buffers
Quantize(p) == RoundDiv(p * ES, SCALE)

\* The easing with a square for the cube in its first half: p < 0.5 ? 4 * p * p : ...
OrnamentEasedSquare(p) ==
  IF 2 * p < ES
    THEN FMul(4 * p, p)
    ELSE ES - RoundDiv(Pow3(-2 * p + 2 * ES), 2)

\* Experience.tsx: p < 0.5 ? 4 * p * p * p : 1 - Math.pow(-2 * p + 2, 3) / 2
OrnamentEased(p) ==
  IF 2 * p < ES
    THEN FMul(FMul(4 * p, p), p)
    ELSE ES - RoundDiv(Pow3(-2 * p + 2 * ES), 2)

\* shader: x < 0.5 ? 4.0 * x * x * x : 1.0 - pow(-2.0 * x + 2.0, 3.0) / 2.0
easeInOutCubic(x) ==
  IF 2 * x < ES
    THEN FMul(FMul(4 * x, x), x)
    ELSE ES - RoundDiv(Pow3(-2 * x + 2 * ES), 2)

----------------------------------------------------------------------------
(* Layout generation (the two useMemo bodies) *)

Draws == 0 .. (UD - 1)

\* Draws u for which u * 2 * PI is a whole number of quarter turns.
AngleDraws == {n \in Draws : (4 * n) % UD = 0}
\* Draws u for which sin(acos(2u - 1)) is a multiple of 1/UD.
AcosDraws == {n \in Draws : \E s \in 0 .. UD : s * s = UD * UD - (2 * n - UD) * (2 * n - UD)}
\* Draws u for which cbrt(u) is a multiple of 1/UD.
CbrtDraws == {n \in Draws : \E c \in 0 .. UD : c * c * c = n * UD * UD}

\* cos and sin of q quarter turns
Cos4(q) == CASE q % 4 = 0 -> 1 [] q % 4 = 1 -> 0 [] q % 4 = 2 -> -1 [] OTHER -> 0
Sin4(q) == CASE q % 4 = 0 -> 0 [] q % 4 = 1 -> 1 [] q % 4 = 2 -> 0 [] OTHER -> -1

\* Math.cos(u * Math.PI * 2), Math.sin(u * Math.PI * 2) for u = n/UD in AngleDraws
CosTurn(n) == Cos4((4 * n) \div UD)
SinTurn(n) == Sin4((4 * n) \div UD)

\* phi = Math.acos(2u - 1): cos(phi) and sin(phi) in units of 1/UD
CosAcos(n) == 2 * n - UD
SinAcos(n) == CHOOSE s \in 0 .. UD : s * s = UD * UD - (2 * n - UD) * (2 * n - UD)

\* Math.cbrt(u) in units of 1/UD
Cbrt(n) == CHOOSE c \in 0 .. UD : c * c * c = n * UD * UD

\* Experience.tsx useDualStateInstances: treeHeight = 12, treeRadiusBase = 4.5
OrnTreeHeight == 12 * PSC
OrnTreeRadiusBase == (45 * PSC) \div 10
\* the constant added to an ornament's radius: 0.2
OrnRadiusOffset == (2 * PSC) \div 10

\* One iteration of the loop of useDualStateInstances; u holds the eight
\* Math.random() draws in call order.
OrnamentElement(type, u) ==
  LET hNorm == u[1]
      h == RoundDiv(hNorm * OrnTreeHeight, UD) - OrnTreeHeight \div 2
      currentRadius == RoundDiv((UD - hNorm) * OrnTreeRadiusBase, UD) + OrnRadiusOffset
      tx == CosTurn(u[2]) * currentRadius
      tz == SinTurn(u[2]) * currentRadius
      ty == h
      rScatter == 10 * PSC + RoundDiv(u[3] * 10 * PSC, UD)
      rSinPhi == RoundDiv(rScatter * SinAcos(u[5]), UD)
      sx == rSinPhi * CosTurn(u[4])
      sy == rSinPhi * SinTurn(u[4])
      sz == RoundDiv(rScatter * CosAcos(u[5]), UD)
      scale == IF type = "box"
                 THEN (3 * PSC) \div 10 + RoundDiv(u[6] * 4 * PSC, 10 * UD)
                 ELSE (2 * PSC) \div 10 + RoundDiv(u[6] * 3 * PSC, 10 * UD)
  IN [tree     |-> <<tx, ty, tz>>,
      scatter  |-> <<sx, sy, sz>>,
      scale    |-> scale,
      rotation |-> <<u[7], u[8], 0>>]   \* in units of PI/UD

\* part_000 Foliage: treeHeight = 14, treeRadiusBase = 5
FolTreeHeight == 14 * PSC
FolTreeRadiusBase == 5 * PSC
\* the width of the radius jitter: (Math.random() - 0.5) * 0.5
FolJitterWidth == PSC \div 2

\* i * 137.5 degrees in quarter turns, for the needles i where that is whole
\* (i * 275 half-degrees is a multiple of 180: every 36th needle).
GoldenQuarter(i) == (i * 275) \div 180
NeedleIndex(k) == (k - 1) * 36

\* The needle with a jitter that is not centred: Math.random() * 0.5.
FoliageElementUncentred(i, u) ==
  LET rScatter == RoundDiv(15 * PSC * Cbrt(u[1]), UD)
      rSinPhi == RoundDiv(rScatter * SinAcos(u[3]), UD)
      sx == rSinPhi * CosTurn(u[2])
      sy == rSinPhi * SinTurn(u[2])
      sz == RoundDiv(rScatter * CosAcos(u[3]), UD)
      hNorm == u[4]
      h == RoundDiv(hNorm * FolTreeHeight, UD) - FolTreeHeight \div 2
      currentRadius == RoundDiv((UD - hNorm) * FolTreeRadiusBase, UD)
      rOffset == RoundDiv(2 * u[5] * FolJitterWidth, 2 * UD)
      tx == Cos4(GoldenQuarter(i)) * (currentRadius + rOffset)
      tz == Sin4(GoldenQuarter(i)) * (currentRadius + rOffset)
      ty == h
  IN [scatter  |-> <<sx, sy, sz>>,
      tree     |-> <<tx, ty, tz>>,
      position |-> <<sx, sy, sz>>,
      random   |-> u[6]]

\* One iteration of the loop of Foliage's useMemo for needle i; u holds the six
\* Math.random() draws in call order.
FoliageElement(i, u) ==
  LET rScatter == RoundDiv(15 * PSC * Cbrt(u[1]), UD)
      rSinPhi == RoundDiv(rScatter * SinAcos(u[3]), UD)
      sx == rSinPhi * CosTurn(u[2])
      sy == rSinPhi * SinTurn(u[2])
      sz == RoundDiv(rScatter * CosAcos(u[3]), UD)
      hNorm == u[4]
      h == RoundDiv(hNorm * FolTreeHeight, UD) - FolTreeHeight \div 2
      currentRadius == RoundDiv((UD - hNorm) * FolTreeRadiusBase, UD)
      rOffset == RoundDiv((2 * u[5] - UD) * FolJitterWidth, 2 * UD)
      tx == Cos4(GoldenQuarter(i)) * (currentRadius + rOffset)
      tz == Sin4(GoldenQuarter(i)) * (currentRadius + rOffset)
      ty == h
  IN [scatter  |-> <<sx, sy, sz>>,
      tree     |-> <<tx, ty, tz>>,
      position |-> <<sx, sy, sz>>,
      random   |-> u[6]]

\* The draw sets of the Math.random() calls of one element, in call order.
OrnamentDrawSets == <<Draws, AngleDraws, Draws, AngleDraws, AcosDraws, Draws, Draws, Draws>>
FoliageDrawSets == <<CbrtDraws, AngleDraws, AcosDraws, Draws, Draws, Draws>>

DrawSets(g) == IF g = "foliage" THEN FoliageDrawSets ELSE OrnamentDrawSets

Element(g, k, u) ==
  IF g = "foliage" THEN FoliageElement(NeedleIndex(k), u) ELSE OrnamentElement(g, u)

\* The n-th smallest element of a set of integers, counting from 0.
Nth(S, n) == CHOOSE x \in S : Cardinality({y \in S : y < x}) = n

\* Math.random() is a seeded generator: the c-th draw for element k of a group,
\* taken from the draw set of its call site. Seed 0 gives the lowest draws.
SeededDraw(seed, S, k, c) == Nth(S, (seed * (3 * k + 5 * c + 1)) % Cardinality(S))

Layout(g, seed) ==
  [k \in 1 .. NumElems |->
     Element(g, k, [c \in 1 .. Len(DrawSets(g)) |-> SeededDraw(seed, DrawSets(g)[c], k, c)])]

----------------------------------------------------------------------------
(* Per-element transform of the ornaments *)

\* THREE.MathUtils.lerp(d.scatter[c], d.tree[c], eased), eased in units of 1/ES
PosLerp(x, y, e) == RoundDiv((ES - e) * x + e * y, ES)

\* The number a * PI + b: a in units of PI/UD, b in units of 1/(10 * TicksPerSec).
\* PI is irrational, so the pair determines the number.
PiLin(a, b) == [pi |-> a, lin |-> b]

\* d.scale * (1.0 + eased * 0.1 * Math.sin(phase)): sin is left uninterpreted,
\* except that the product vanishes when eased or the phase is 0.
Pulsed(base, e, phase) ==
  IF e = 0 \/ phase = 0
    THEN [base |-> base, amp |-> 0, phase |-> 0]
    ELSE [base |-> base, amp |-> e, phase |-> phase]

\* The body of data.forEach in useFrame, for element d with index i.
Transform(d, i, e, time) ==
  [position |-> <<PosLerp(d.scatter[1], d.tree[1], e),
                  PosLerp(d.scatter[2], d.tree[2], e),
                  PosLerp(d.scatter[3], d.tree[3], e)>>,
   rotation |-> <<PiLin(d.rotation[1], time),
                  PiLin(d.rotation[2], 2 * time),
                  PiLin(d.rotation[3], 0)>>,
   scale    |-> Pulsed(d.scale, e, time + TicksPerSec * i)]

\* The body of data.forEach in useLayoutEffect.
InitialTransform(d) ==
  [position |-> d.scatter,
   rotation |-> <<PiLin(d.rotation[1], 0), PiLin(d.rotation[2], 0), PiLin(d.rotation[3], 0)>>,
   scale    |-> [base |-> d.scale, amp |-> 0, phase |-> 0]]

\* An instance matrix nothing has been written to.
ZeroTransform ==
  [position |-> <<0, 0, 0>>,
   rotation |-> <<PiLin(0, 0), PiLin(0, 0), PiLin(0, 0)>>,
   scale    |-> [base |-> 0, amp |-> 0, phase |-> 0]]

----------------------------------------------------------------------------
(* The running scene *)

Seeds == 0 .. 1

Init ==
  /\ treeState = StoreInit.treeState
  /\ isMorphing = StoreInit.isMorphing
  /\ progressRef = [g \in Groups |-> 0]
  /\ mounted = [g \in Groups |-> FALSE]
  /\ \E seed \in Seeds : data = [g \in Groups |-> Layout(g, seed)]
  /\ matrix = [g \in Ornaments |-> [k \in 1 .. NumElems |-> ZeroTransform]]
  /\ version = [g \in Ornaments |-> 0]
  /\ uniforms = [uTime |-> 0, uProgress |-> 0]
  /\ elapsedTime = 0
  /\ delta = 0
  /\ pending = {}
  /\ frame = 0
  /\ hist = [progress |-> [g \in Groups |-> 0], mounted |-> [g \in Groups |-> FALSE],
             target |-> SCATTERED, prevTarget |-> SCATTERED]
  /\ pc = "main"
  /\ inp = <<>>
  /\ res = <<>>

\* React commits the scene: the refs are attached and the layout effects run.
Commit ==
  /\ pc = "main"
  /\ pending = {}
  /\ \A g \in Groups : ~mounted[g]
  /\ mounted' = [g \in Groups |-> TRUE]
  /\ matrix' = [g \in Ornaments |-> [k \in 1 .. Len(data[g]) |-> InitialTransform(data[g][k])]]
  /\ version' = [g \in Ornaments |-> version[g] + 1]
  /\ UNCHANGED <<progressRef, data, uniforms>>
  /\ UNCHANGED <<storeVars, clockVars, runVars>>

\* The button's onClick.
ToggleState ==
  /\ pc = "main"
  /\ pending = {}
  /\ treeState' = toggleState([treeState |-> treeState, isMorphing |-> isMorphing]).treeState
  /\ isMorphing' = toggleState([treeState |-> treeState, isMorphing |-> isMorphing]).isMorphing
  /\ UNCHANGED <<sceneVars, clockVars, runVars>>

SetMorphing(b) ==
  /\ pc = "main"
  /\ pending = {}
  /\ treeState' = setMorphing([treeState |-> treeState, isMorphing |-> isMorphing], b).treeState
  /\ isMorphing' = setMorphing([treeState |-> treeState, isMorphing |-> isMorphing], b).isMorphing
  /\ UNCHANGED <<sceneVars, clockVars, runVars>>

\* The render loop starts a frame: the clock advances by d and every useFrame
\* callback is due.
BeginFrame(d) ==
  /\ pc = "main"
  /\ pending = {}
  /\ frame < MaxFrames
  /\ frame' = frame + 1
  /\ delta' = d
  /\ elapsedTime' = elapsedTime + d
  /\ pending' = Groups
  /\ hist' = [progress |-> progressRef, mounted |-> mounted,
              target |-> treeState, prevTarget |-> hist.target]
  /\ UNCHANGED <<storeVars, sceneVars, runVars>>

\* The callback with the early return the source comment considers: the snap
\* branch stops before the matrices are written.
OrnamentFrameEarlyReturn(g) ==
  /\ pc = "main"
  /\ g \in pending
  /\ g \in Ornaments
  /\ pending' = pending \ {g}
  /\ IF ~mounted[g]
       THEN UNCHANGED <<progressRef, matrix, version>>
       ELSE LET p == OrnamentProgress(g, progressRef[g], treeState, delta)
                eased == OrnamentEased(Quantize(p))
            IN /\ progressRef' = [progressRef EXCEPT ![g] = p]
               /\ IF SnapBranch(progressRef[g], Target(treeState))
                    THEN UNCHANGED <<matrix, version>>
                    ELSE /\ matrix' = [matrix EXCEPT ![g] =
                              [k \in 1 .. Len(data[g]) |->
                                 Transform(data[g][k], k - 1, eased, elapsedTime)]]
                         /\ version' = [version EXCEPT ![g] = @ + 1]
  /\ UNCHANGED <<mounted, data, uniforms>>
  /\ UNCHANGED <<storeVars, elapsedTime, delta, frame, hist, runVars>>

\* The callback with one progress ref shared by all groups instead of one
\* useRef per component instance.
OrnamentFrameSharedRef(g) ==
  /\ pc = "main"
  /\ g \in pending
  /\ g \in Ornaments
  /\ pending' = pending \ {g}
  /\ IF ~mounted[g]
       THEN UNCHANGED <<progressRef, matrix, version>>
       ELSE LET p == OrnamentProgress(g, progressRef[g], treeState, delta)
                eased == OrnamentEased(Quantize(p))
            IN /\ progressRef' = [h \in Groups |-> p]
               /\ matrix' = [matrix EXCEPT ![g] =
                    [k \in 1 .. Len(data[g]) |-> Transform(data[g][k], k - 1, eased, elapsedTime)]]
               /\ version' = [version EXCEPT ![g] = @ + 1]
  /\ UNCHANGED <<mounted, data, uniforms>>
  /\ UNCHANGED <<storeVars, elapsedTime, delta, frame, hist, runVars>>

\* InstancedOrnaments' useFrame callback.
OrnamentFrame(g) ==
  /\ pc = "main"
  /\ g \in pending
  /\ g \in Ornaments
  /\ pending' = pending \ {g}
  /\ IF ~mounted[g]
       THEN UNCHANGED <<progressRef, matrix, version>>
       ELSE LET p == OrnamentProgress(g, progressRef[g], treeState, delta)
                eased == OrnamentEased(Quantize(p))
            IN /\ progressRef' = [progressRef EXCEPT ![g] = p]
               /\ matrix' = [matrix EXCEPT ![g] =
                    [k \in 1 .. Len(data[g]) |-> Transform(data[g][k], k - 1, eased, elapsedTime)]]
               /\ version' = [version EXCEPT ![g] = @ + 1]
  /\ UNCHANGED <<mounted, data, uniforms>>
  /\ UNCHANGED <<storeVars, elapsedTime, delta, frame, hist, runVars>>

\* Foliage's useFrame callback.
FoliageFrame ==
  /\ pc = "main"
  /\ "foliage" \in pending
  /\ pending' = pending \ {"foliage"}
  /\ IF ~mounted["foliage"]
       THEN UNCHANGED <<progressRef, uniforms>>
       ELSE LET p == FoliageProgress(progressRef["foliage"], treeState, delta)
            IN /\ progressRef' = [progressRef EXCEPT !["foliage"] = p]
               /\ uniforms' = [uTime |-> elapsedTime, uProgress |-> p]
  /\ UNCHANGED <<mounted, data, matrix, version>>
  /\ UNCHANGED <<storeVars, elapsedTime, delta, frame, hist, runVars>>

Next ==
  \/ Commit
  \/ ToggleState
  \/ \E b \in BOOLEAN : SetMorphing(b)
  \/ \E d \in Deltas : BeginFrame(d)
  \/ \E g \in Ornaments : OrnamentFrame(g)
  \/ FoliageFrame

Spec == Init /\ [][Next]_vars

----------------------------------------------------------------------------
(* Properties of the running scene *)

\* A frame update of group g: a step of its useFrame callback past the ref guard.
FrameUpdate(g) ==
  /\ mounted[g]
  /\ IF g = "foliage" THEN FoliageFrame ELSE OrnamentFrame(g)

\* The group's callback has run in the current frame, past the ref guard.
Updated(g) == frame > 0 /\ g \notin pending /\ hist.mounted[g]

\* progress strictly between 0 and 1 and more than 1e-3 from both ends
InFlight(p) == 1000 * p > SCALE /\ 1000 * (SCALE - p) > SCALE

StrictlyBetween(a, x, b) == (a < x /\ x < b) \/ (b < x /\ x < a)

\* C1: every group's progress is within [0,1] in every reachable state.
C1_ProgressInRange == \A g \in Groups : 0 <= progressRef[g] /\ progressRef[g] <= SCALE

\* C3: when the target changed between the previous frame and this one and the
\* group's progress was in flight, a frame update in which time passed leaves
\* the progress strictly between its previous value and the new target.
C3_ReversesSmoothly ==
  \A g \in Groups :
    (/\ Updated(g)
     /\ frame >= 2
     /\ delta > 0
     /\ hist.prevTarget # hist.target
     /\ InFlight(hist.progress[g]))
    => StrictlyBetween(hist.progress[g], progressRef[g], Target(hist.target))

\* C5: a step that leaves the target alone leaves a progress that equals the
\* target exactly where it is, whatever the delta; so does every frame update.
C5_IdempotentAtRest ==
  [][\A g \in Groups :
       (progressRef[g] = Target(treeState) /\ treeState' = treeState)
       => progressRef'[g] = Target(treeState)]_vars

\* A frame update with a positive delta has run on a foliage that was already
\* at rest in the tree shape.
C5_Witness ==
  /\ Updated("foliage")
  /\ delta > 0
  /\ hist.target = TREE_SHAPE
  /\ hist.progress["foliage"] = SCALE
  /\ progressRef["foliage"] = SCALE
  /\ uniforms.uTime = elapsedTime

\* C7: every frame update of a mounted ornament group writes the transform of
\* every element (interpolated position, rotation advanced by the elapsed time,
\* pulsed scale) and marks the instance buffer, on the snap branch and on the
\* interpolation branch alike.
C7_WritesEveryFrame ==
  [][\A g \in Ornaments :
       FrameUpdate(g) =>
         /\ DOMAIN matrix'[g] = 1 .. NumElems
         /\ \A k \in 1 .. NumElems :
              matrix'[g][k] =
                Transform(data[g][k], k - 1, OrnamentEased(Quantize(progressRef'[g])), elapsedTime)
         /\ version'[g] = version[g] + 1]_vars

\* A frame update of the boxes took the snap branch from a progress that was
\* not yet equal to the target, and the transforms carry the frame's time.
C7_Witness ==
  /\ Updated("box")
  /\ SnapBranch(hist.progress["box"], Target(hist.target))
  /\ hist.progress["box"] # Target(hist.target)
  /\ progressRef["box"] = Target(hist.target)
  /\ elapsedTime > 0
  /\ matrix["box"][1].rotation[1].lin = elapsedTime

\* C9: a frame update of one group leaves the store, the other groups' progress
\* and all layout data alone; toggleState leaves everything but the store alone;
\* and wherever a frame stands, each group's progress is the frame's start value
\* if its callback has not run and the update of that start value if it has, in
\* whichever order the callbacks ran.
C9_Ownership ==
  /\ [][\A g \in Groups :
          FrameUpdate(g) =>
            /\ UNCHANGED <<treeState, isMorphing, data, mounted>>
            /\ \A h \in Groups \ {g} : progressRef'[h] = progressRef[h]
            /\ \A h \in Ornaments \ {g} : matrix'[h] = matrix[h] /\ version'[h] = version[h]
            /\ (g # "foliage" => uniforms' = uniforms)]_vars
  /\ [][ToggleState => UNCHANGED <<sceneVars, clockVars>>]_vars
  /\ [](\A g \in Groups :
          progressRef[g] =
            IF Updated(g)
              THEN ProgressUpdate(g, hist.progress[g], hist.target, delta)
              ELSE hist.progress[g])

\* Two groups have run their callbacks in a frame and have moved, a third has not.
C9_Witness ==
  /\ Updated("box")
  /\ Updated("foliage")
  /\ "sphere" \in pending
  /\ progressRef["box"] # hist.progress["box"]
  /\ progressRef["foliage"] # hist.progress["foliage"]
  /\ progressRef["box"] # progressRef["foliage"]

\* C10: the store starts SCATTERED and not morphing; toggleState flips treeState
\* (twice restores it) and sets isMorphing; a step that is not setMorphing(false)
\* never takes isMorphing back, frame updates included.
C10_MorphingSticks ==
  /\ treeState = SCATTERED /\ isMorphing = FALSE
  /\ [][ToggleState =>
          /\ treeState' # treeState
          /\ treeState' \in TreeStates
          /\ isMorphing'
          /\ toggleState([treeState |-> treeState', isMorphing |-> isMorphing']).treeState = treeState]_vars
  /\ [][(isMorphing /\ ~SetMorphing(FALSE)) => isMorphing']_vars
  /\ [][\A g \in Groups : FrameUpdate(g) => isMorphing' = isMorphing]_vars

\* Every group has reached the tree shape, frames have run since, and the store
\* still says morphing.
C10_Witness ==
  /\ isMorphing
  /\ treeState = TREE_SHAPE
  /\ pending = {}
  /\ frame >= 2
  /\ \A g \in Groups : mounted[g] /\ hist.progress[g] = SCALE /\ progressRef[g] = SCALE

----------------------------------------------------------------------------
(* Function runs: one function of the program applied to inputs drawn from  *)
(* a set, with the rest of the scene standing still.                        *)

StillScene(ts, p, layout) ==
  /\ treeState = ts
  /\ isMorphing = FALSE
  /\ progressRef = p
  /\ mounted = [g \in Groups |-> TRUE]
  /\ data = layout
  /\ matrix = [g \in Ornaments |-> [k \in 1 .. NumElems |-> ZeroTransform]]
  /\ version = [g \in Ornaments |-> 0]
  /\ uniforms = [uTime |-> 0, uProgress |-> 0]
  /\ elapsedTime = 0
  /\ delta = 0
  /\ pending = {}
  /\ frame = 0
  /\ hist = [progress |-> p, mounted |-> [g \in Groups |-> TRUE],
             target |-> ts, prevTarget |-> ts]

Only(g, p0) == [h \in Groups |-> IF h = g THEN p0 ELSE 0]

(* -- the easing functions on the whole grid of [0,1] -- *)

EaseGaps == {0, 1, 2, 7, 100, ES \div 2}

InitEase ==
  /\ StillScene(SCATTERED, Only("box", 0), [g \in Groups |-> Layout(g, 0)])
  /\ pc = "ease"
  /\ \E p \in 0 .. ES, gap \in EaseGaps : p + gap <= ES /\ inp = [p |-> p, q |-> p + gap]
  /\ res = <<>>

ApplyEase ==
  /\ pc = "ease"
  /\ pc' = "eased"
  /\ res' = [cpu |-> [p |-> OrnamentEased(inp.p), q |-> OrnamentEased(inp.q)],
             gpu |-> [p |-> easeInOutCubic(inp.p), q |-> easeInOutCubic(inp.q)]]
  /\ UNCHANGED <<storeVars, sceneVars, clockVars, inp>>

SpecEase == InitEase /\ [][ApplyEase]_vars

\* C6: both easing functions map 0 to 0, 1/2 to 1/2 and 1 to 1, are
\* non-decreasing on [0,1] and stay within [0,1] there.
C6_EaseInOut ==
  pc = "eased" =>
    \A v \in {"cpu", "gpu"} :
      /\ inp.p = 0 => res[v].p = 0
      /\ 2 * inp.p = ES => 2 * res[v].p = ES
      /\ inp.q = ES => res[v].q = ES
      /\ inp.p <= inp.q => res[v].p <= res[v].q
      /\ 0 <= res[v].p /\ res[v].p <= ES
      /\ 0 <= res[v].q /\ res[v].q <= ES

\* Both functions were applied at 1/2 and at 1.
C6_Witness ==
  /\ pc = "eased"
  /\ 2 * inp.p = ES /\ inp.q = ES
  /\ 2 * res.cpu.p = ES /\ res.cpu.q = ES
  /\ 2 * res.gpu.p = ES /\ res.gpu.q = ES

(* -- one element of a layout, for every draw of its tree position -- *)

\* The draws of element k: x and y at the two call sites the tree position
\* reads, the lowest (a = 0) or highest (a = 1) draw of the set elsewhere.
TreeSites(g) == IF g = "foliage" THEN <<4, 5>> ELSE <<1, 2>>

LayoutDraws(g, a, x, y) ==
  [c \in 1 .. Len(DrawSets(g)) |->
     IF c = TreeSites(g)[1] THEN x
     ELSE IF c = TreeSites(g)[2] THEN y
     ELSE Nth(DrawSets(g)[c], a * (Cardinality(DrawSets(g)[c]) - 1))]

InitLayout ==
  /\ pc = "layout"
  /\ res = <<>>
  /\ \E g \in Groups, k \in 1 .. NumElems, a \in 0 .. 1, x \in Draws, y \in Draws :
       /\ x \in DrawSets(g)[TreeSites(g)[1]]
       /\ y \in DrawSets(g)[TreeSites(g)[2]]
       /\ inp = [g |-> g, k |-> k, u |-> LayoutDraws(g, a, x, y)]
       /\ StillScene(SCATTERED, Only(g, 0),
                     [h \in Groups |-> IF h = g THEN SubSeq(Layout(g, 0), 1, k - 1) ELSE <<>>])

\* The k-th iteration of the generation loop of group inp.g.
GenerateElement ==
  /\ pc = "layout"
  /\ pc' = "generated"
  /\ data' = [data EXCEPT ![inp.g] = Append(@, Element(inp.g, inp.k, inp.u))]
  /\ UNCHANGED <<progressRef, mounted, matrix, version, uniforms>>
  /\ UNCHANGED <<storeVars, clockVars, inp, res>>

SpecLayout == InitLayout /\ [][GenerateElement]_vars

TreeHeightOf(g) == IF g = "foliage" THEN FolTreeHeight ELSE OrnTreeHeight
\* R0 + jitterWidth/2 for foliage, R0 + 0.2 for ornaments
MaxRadiusOf(g) ==
  IF g = "foliage"
    THEN FolTreeRadiusBase + FolJitterWidth \div 2
    ELSE OrnTreeRadiusBase + OrnRadiusOffset

RadiusSquared(e) == e.tree[1] * e.tree[1] + e.tree[3] * e.tree[3]

\* C8: every generated tree position has its vertical coordinate in
\* [-H/2, H/2] and its distance from the vertical axis in [0, maximal radius].
C8_TreeWithinCone ==
  \A g \in Groups : \A k \in DOMAIN data[g] :
    /\ 2 * data[g][k].tree[2] >= -TreeHeightOf(g)
    /\ 2 * data[g][k].tree[2] <= TreeHeightOf(g)
    /\ RadiusSquared(data[g][k]) <= MaxRadiusOf(g) * MaxRadiusOf(g)

\* A needle was generated at the base of the cone with its jitter pointing
\* outward, beyond the cone's radius.
C8_Witness ==
  /\ pc = "generated"
  /\ inp.g = "foliage"
  /\ 2 * data["foliage"][inp.k].tree[2] = -FolTreeHeight
  /\ RadiusSquared(data["foliage"][inp.k]) > FolTreeRadiusBase * FolTreeRadiusBase

(* -- the progress update repeated with a fixed delta and a constant target -- *)

\* Starting values in [0,1]
Starts == {0, SCALE \div 4, SCALE \div 2, SCALE}

\* Fixed deltas in ticks: one 60 Hz frame, 1/2 s, 2/3 s, 1 s, 4/3 s. At 4/3 s
\* delta * 1.5 is 2, the largest factor for which progress stays bounded.
ConvDeltas == {1, 30, 40, 60, 80}

InitConv ==
  /\ pc = "conv"
  /\ res = <<>>
  /\ \E g \in Groups, d \in ConvDeltas, ts \in TreeStates, p0 \in Starts :
       /\ inp = [g |-> g, delta |-> d, start |-> p0]
       /\ StillScene(ts, Only(g, p0), [h \in Groups |-> Layout(h, 0)])

\* One more frame: the progress update of group inp.g with the fixed delta.
ConvStep ==
  /\ pc = "conv"
  /\ progressRef' = [progressRef EXCEPT
                       ![inp.g] = ProgressUpdate(inp.g, @, treeState, inp.delta)]
  /\ UNCHANGED <<mounted, data, matrix, version, uniforms>>
  /\ UNCHANGED <<storeVars, clockVars, runVars>>

\* The render loop keeps rendering frames.
SpecConv == InitConv /\ [][ConvStep]_vars /\ WF_vars(ConvStep)

WithinOfTarget(g, num, den) ==
  Abs(progressRef[g] - Target(treeState)) * den <= num * SCALE

\* C2: repeating the update with a fixed nonzero delta and a constant target
\* eventually brings progress within 1e-3 of the target and keeps it there.
C2_Converges == <>[](\A g \in Groups : g = inp.g => WithinOfTarget(g, 1, 1000))

(* -- N updates toward the tree, then N updates back -- *)

MaxN == 10

RevDeltas == {1, 30, 40, 59, 60, 80}

InitRev ==
  /\ pc = "up"
  /\ \E g \in Groups, d \in RevDeltas, n \in 1 .. MaxN, p0 \in Starts :
       /\ inp = [g |-> g, delta |-> d, n |-> n, start |-> p0]
       /\ StillScene(TREE_SHAPE, Only(g, p0), [h \in Groups |-> Layout(h, 0)])
  /\ res = [k |-> 0, top |-> 0]

RevStep ==
  /\ pc \in {"up", "down"}
  /\ res.k < inp.n
  /\ progressRef' = [progressRef EXCEPT
                       ![inp.g] = ProgressUpdate(inp.g, @, treeState, inp.delta)]
  /\ res' = [res EXCEPT !.k = @ + 1]
  /\ pc' = IF pc = "down" /\ res.k + 1 = inp.n THEN "done" ELSE pc
  /\ UNCHANGED <<mounted, data, matrix, version, uniforms>>
  /\ UNCHANGED <<storeVars, clockVars, inp>>

\* After the N-th update toward the tree the target is toggled.
RevToggle ==
  /\ pc = "up"
  /\ res.k = inp.n
  /\ treeState' = toggleState([treeState |-> treeState, isMorphing |-> isMorphing]).treeState
  /\ isMorphing' = toggleState([treeState |-> treeState, isMorphing |-> isMorphing]).isMorphing
  /\ res' = [k |-> 0, top |-> progressRef[inp.g]]
  /\ pc' = "down"
  /\ UNCHANGED <<sceneVars, clockVars, inp>>

SpecRev == InitRev /\ [][RevStep \/ RevToggle]_vars

\* C4 as stated: N updates with target 1 and then N updates with target 0
\* return progress to within 1e-2 of its starting value.
C4_Reversible ==
  pc = "done" => Abs(progressRef[inp.g] - inp.start) * 100 <= SCALE

\* C4 amended: from progress 0, if the N updates with target 1 brought progress
\* within 1e-3 of 1, the N updates with target 0 bring it back within 1e-2 of 0.
C4_ReversibleOnceConverged ==
  (/\ pc = "done"
   /\ inp.start = 0
   /\ Abs(res.top - SCALE) * 1000 <= SCALE)
  => Abs(progressRef[inp.g]) * 100 <= SCALE

\* A round trip of more than one update each way whose upward half ended
\* within 1e-3 of 1 but not on it.
C4_Witness ==
  /\ pc = "done"
  /\ inp.start = 0
  /\ inp.n >= 2
  /\ Abs(res.top - SCALE) * 1000 <= SCALE
  /\ res.top # SCALE
  /\ Abs(progressRef[inp.g]) * 100 <= SCALE

====
